---- MODULE Spec2Model ----
(***************************************************************************)
(* A model of site.py, the static site generator: the build pipeline       *)
(* (per-file loop, index, tags, date archives, feeds, sitemap), the        *)
(* configuration merge of load_config, and normalize_tag.                  *)
(*                                                                         *)
(* Python str values the code inspects character by character (file names, *)
(* URLs, tags) are sequences of one-character strings.                     *)
(***************************************************************************)
EXTENDS Integers, Sequences, FiniteSets, TLC

(***************************************************************************)
(* Bounds                                                                  *)
(***************************************************************************)
\* the number of markdown files one build run discovers
MaxFiles == 3

\* the length of the tag strings normalize_tag is applied to
MaxTagLen == 3

(***************************************************************************)
(* Characters and Python str primitives                                    *)
(***************************************************************************)
ascii_lowercase ==
    << "a", "b", "c", "d", "e", "f", "g", "h", "i", "j", "k", "l", "m",
       "n", "o", "p", "q", "r", "s", "t", "u", "v", "w", "x", "y", "z" >>

ascii_uppercase ==
    << "A", "B", "C", "D", "E", "F", "G", "H", "I", "J", "K", "L", "M",
       "N", "O", "P", "Q", "R", "S", "T", "U", "V", "W", "X", "Y", "Z" >>

digits == << "0", "1", "2", "3", "4", "5", "6", "7", "8", "9" >>

Range(s) == { s[i] : i \in DOMAIN s }

IndexIn(c, s) == CHOOSE i \in DOMAIN s : s[i] = c

\* the code point of an ASCII character (the order Python compares str by)
Ord(c) ==
    IF c \in Range(ascii_uppercase) THEN 64 + IndexIn(c, ascii_uppercase)
    ELSE IF c \in Range(ascii_lowercase) THEN 96 + IndexIn(c, ascii_lowercase)
    ELSE IF c \in Range(digits) THEN 47 + IndexIn(c, digits)
    ELSE CASE c = " " -> 32
           [] c = "!" -> 33
           [] c = "-" -> 45
           [] c = "." -> 46
           [] c = "/" -> 47
           [] c = "_" -> 95

\* Python's < on two str values
RECURSIVE StrLess(_, _)
StrLess(a, b) ==
    IF b = << >> THEN FALSE
    ELSE IF a = << >> THEN TRUE
    ELSE IF Head(a) = Head(b) THEN StrLess(Tail(a), Tail(b))
    ELSE Ord(Head(a)) < Ord(Head(b))

RECURSIVE LStrip(_, _)
LStrip(s, chars) ==
    IF s # << >> /\ Head(s) \in chars THEN LStrip(Tail(s), chars) ELSE s

RECURSIVE RStrip(_, _)
RStrip(s, chars) ==
    IF s # << >> /\ s[Len(s)] \in chars
    THEN RStrip(SubSeq(s, 1, Len(s) - 1), chars)
    ELSE s

\* s.strip(chars): chars is a SET of characters removed from both ends
Strip(s, chars) == RStrip(LStrip(s, chars), chars)

StartsWith(s, p) == Len(s) >= Len(p) /\ SubSeq(s, 1, Len(p)) = p

\* s.split(sep)[0]
RECURSIVE SplitFirst(_, _)
SplitFirst(s, sep) ==
    IF s = << >> \/ Head(s) = sep THEN << >>
    ELSE << Head(s) >> \o SplitFirst(Tail(s), sep)

\* the text after the last sep (Path(...).name)
RECURSIVE BaseName(_)
BaseName(s) ==
    IF "/" \notin Range(s) THEN s
    ELSE BaseName(Tail(s))

\* Path(file).stem: the base name without its last suffix
RECURSIVE DropSuffix(_)
DropSuffix(s) ==
    IF s = << >> THEN << >>
    ELSE IF s[Len(s)] = "." THEN SubSeq(s, 1, Len(s) - 1)
    ELSE DropSuffix(SubSeq(s, 1, Len(s) - 1))

Stem(file) ==
    LET name == BaseName(file)
    IN  IF "." \in Range(name) /\ Head(name) # "." THEN DropSuffix(name) ELSE name

Min(a, b) == IF a <= b THEN a ELSE b
Max(a, b) == IF a >= b THEN a ELSE b

\* seq[:n], Python's slice with its negative-index rule
Slice(seq, n) ==
    IF n >= 0 THEN SubSeq(seq, 1, Min(n, Len(seq)))
    ELSE SubSeq(seq, 1, Max(Len(seq) + n, 0))

Has(d, key) == key \in DOMAIN d

\* d.get(key, default)
Get(d, key, default) == IF key \in DOMAIN d THEN d[key] ELSE default

(***************************************************************************)
(* normalize_tag                                                           *)
(***************************************************************************)
\* the non-ASCII characters of the model: two precomposed accented letters
\* and a letter with no decomposition
NonAscii == { "aacute", "Aacute", "ostroke", "U0301" }

IsAscii(c) == c \notin NonAscii

\* unicodedata.normalize("NFKD", c) of one character: a precomposed letter
\* becomes its base letter followed by the combining accent U+0301
NFKD(c) ==
    CASE c = "aacute" -> << "a", "U0301" >>
      [] c = "Aacute" -> << "A", "U0301" >>
      [] OTHER -> << c >>

RECURSIVE Normalize(_)
Normalize(s) ==
    IF s = << >> THEN << >> ELSE NFKD(Head(s)) \o Normalize(Tail(s))

\* .encode("ascii", "ignore").decode("ascii")
AsciiIgnore(s) == SelectSeq(s, IsAscii)

LowerChar(c) ==
    IF c \in Range(ascii_uppercase)
    THEN ascii_lowercase[IndexIn(c, ascii_uppercase)]
    ELSE c

\* str.lower() on an ASCII str
Lower(s) == [ i \in DOMAIN s |-> LowerChar(s[i]) ]

\* the regular-expression classes \w and \s on ASCII text
IsWordChar(c) ==
    c \in Range(ascii_lowercase) \cup Range(ascii_uppercase) \cup Range(digits) \cup { "_" }

IsSpaceChar(c) == c = " "

IsKept(c) == IsWordChar(c) \/ IsSpaceChar(c) \/ c = "-"

\* re.sub(r"[^\w\s-]", "", s)
DropOther(s) == SelectSeq(s, IsKept)

IsSep(c) == c = "-" \/ IsSpaceChar(c)

\* re.sub(r"[-\s]+", "-", s): every maximal run of separators becomes one "-"
RECURSIVE CollapseSeps(_)
CollapseSeps(s) ==
    IF s = << >> THEN << >>
    ELSE IF IsSep(Head(s))
         THEN << "-" >> \o CollapseSeps(LStrip(s, { "-", " " }))
         ELSE << Head(s) >> \o CollapseSeps(Tail(s))

\* normalize_tag with the strip done before the separators are collapsed
normalize_tag_strip_first(value) ==
    CollapseSeps(Strip(DropOther(Lower(AsciiIgnore(Normalize(value)))), { "-", "_" }))

normalize_tag(value) ==
    Strip(CollapseSeps(DropOther(Lower(AsciiIgnore(Normalize(value))))), { "-", "_" })

(***************************************************************************)
(* Configuration                                                           *)
(***************************************************************************)
DEFAULT_CONFIG ==
    [ site  |-> [ title       |-> "Firstname Lastname",
                  author      |-> "Firstname Lastname",
                  url         |-> "https://blog.banderson443.me",
                  description |-> "Personal blog and writings" ],
      paths |-> [ content   |-> << "c", "o", "n", "t", "e", "n", "t" >>,
                  output    |-> << "d", "o", "c", "s" >>,
                  templates |-> << "t", "e", "m", "p", "l", "a", "t", "e", "s" >>,
                  static    |-> << "s", "t", "a", "t", "i", "c" >> ],
      build |-> [ posts_per_page |-> 20,
                  include_drafts |-> FALSE ],
      feeds |-> [ enabled   |-> TRUE,
                  rss_path  |-> "/feed/rss/",
                  atom_path |-> "/feed/atom/" ] ]

(***************************************************************************)
(* The content tree: markdown files and their front matter                 *)
(***************************************************************************)
\* a YAML date scalar, a YAML string, and the datetime arrow produces
YamlDate(n) == [ type |-> "date", ts |-> n ]
YamlStr(t) == [ type |-> "str", text |-> t ]
DateTime(n) == [ type |-> "datetime", ts |-> n ]

\* the date strings of the content tree that arrow.get parses, with the
\* timestamp each denotes (yyyymmdd)
IsoText == << "2", "0", "2", "4", "-", "0", "3", "-", "0", "1" >>
ArrowParses(value) ==
    value.type = "date" \/ (value.type = "str" /\ value.text = IsoText)

\* arrow.get(value).to("utc").datetime, where it does not raise
ArrowGet(value) ==
    IF value.type = "date" THEN DateTime(value.ts) ELSE DateTime(20240301)

\* the markdown files a content root may hold: the name relative to the
\* content root and the front-matter tokens of the file (none or one)
ContentFiles ==
    { [ name |-> << "b", "l", "o", "g", "/", "a", ".", "m", "d" >>,
        tokens |-> << [ title |-> "A", date |-> YamlDate(20240105),
                        tags |-> << << "G", "o" >> >>,
                        url |-> << "/", "b", "l", "o", "g", "/", "a", "/" >>,
                        aliases |-> << << "/", "2", "0", "2", "4", "/", "a", "/" >> >> ] >> ],
      [ name |-> << "b", "l", "o", "g", "/", "b", ".", "m", "d" >>,
        tokens |-> << [ title |-> "B", date |-> YamlDate(20240105),
                        tags |-> << << "g", "o" >>, << "Z" >> >>,
                        url |-> << "/", "b", "l", "o", "g", "/", "b", "/" >> ] >> ],
      [ name |-> << "b", "l", "o", "g", "/", "c", ".", "m", "d" >>,
        tokens |-> << [ title |-> "C", date |-> YamlDate(20230220),
                        tags |-> << << "a" >> >>, draft |-> TRUE,
                        url |-> << "/", "b", "l", "o", "g", "/", "c", "/" >> ] >> ],
      [ name |-> << "b", "l", "o", "g", "/", "d", ".", "m", "d" >>,
        tokens |-> << [ title |-> "D", date |-> YamlStr(<< "s", "o", "m", "e", "d", "a", "y" >>),
                        draft |-> FALSE,
                        url |-> << "/", "b", "l", "o", "g", "/", "d", "/" >> ] >> ],
      [ name |-> << "b", "l", "o", "g", "/", "e", ".", "m", "d" >>,
        tokens |-> << [ title |-> "E", date |-> YamlDate(20240220) ] >> ],
      [ name |-> << "p", "a", "g", "e", "s", "/", "p", ".", "m", "d" >>,
        tokens |-> << [ title |-> "About" ] >> ],
      [ name |-> << "b", "l", "o", "g", ".", "m", "d" >>,
        tokens |-> << [ title |-> "Blog", date |-> YamlStr(IsoText),
                        url |-> << "/", "w", "r", "i", "t", "i", "n", "g", "/" >> ] >> ],
      [ name |-> << "n", "o", "t", "e", "s", "/", "n", ".", "m", "d" >>,
        tokens |-> << >> ] }

\* the content roots a configuration may name
ContentRoots == { DEFAULT_CONFIG.paths.content, << "s", "r", "c", "/", "c", "o", "n", "t", "e", "n", "t" >> }

\* the posts_per_page values a configuration may give
PostsPerPage == { 0, 1, 2, DEFAULT_CONFIG.build.posts_per_page }

\* what load_config hands to build: the defaults with the build, feeds and
\* content settings a user file may override
BuildConfigs ==
    { [ DEFAULT_CONFIG EXCEPT !.paths.content = root,
                              !.build.posts_per_page = n,
                              !.build.include_drafts = drafts,
                              !.feeds.enabled = feeds ] :
        root \in ContentRoots, n \in PostsPerPage,
        drafts \in BOOLEAN, feeds \in BOOLEAN }

\* the path glob reports for a file of the content tree
GlobPath(content, f) == content \o << "/" >> \o f.name

(***************************************************************************)
(* Per-file functions                                                      *)
(***************************************************************************)
EmptyDict == [ k \in { } |-> TRUE ]

parse_front_matter(tokens) ==
    IF Len(tokens) = 0 THEN EmptyDict
    ELSE LET fm == tokens[1]
         IN  IF Has(fm, "date") /\ ArrowParses(fm.date)
             THEN [ fm EXCEPT !.date = ArrowGet(fm.date) ]
             ELSE fm

\* the rendered body stands for the file it was rendered from
get_template_context(f) ==
    ("html_content" :> f.name) @@ parse_front_matter(f.tokens)

get_template_name(filename, content_dir) ==
    LET parent == SplitFirst(Strip(filename, Range(content_dir)), "/")
    IN  IF parent = << "b", "l", "o", "g" >> THEN "blog.html"
        ELSE IF parent = << "p", "a", "g", "e", "s" >> THEN "page.html"
        ELSE "page.html"

\* Path(output) / Path(url) / Path("index.html")
OutputPath(output, url) ==
    (IF url = << >> THEN output ELSE output \o << "/" >> \o url)
        \o << "/", "i", "n", "d", "e", "x", ".", "h", "t", "m", "l" >>

get_output_paths(output_dir, context, file) ==
    LET fromUrl == IF Has(context, "url")
                   THEN << Strip(context.url, { "/" }) >> ELSE << >>
        fromAliases == IF Has(context, "aliases")
                       THEN [ i \in DOMAIN context.aliases |->
                                Strip(context.aliases[i], { "/" }) ]
                       ELSE << >>
        urls == IF fromUrl \o fromAliases = << >>
                THEN << Stem(file) >>
                ELSE fromUrl \o fromAliases
    IN  [ i \in DOMAIN urls |-> OutputPath(output_dir, urls[i]) ]

\* build's test for the blog subtree (line 459)
IsIndexed(file, content) == StartsWith(Strip(file, Range(content)), << "/", "b", "l", "o", "g" >>)

\* IsSkipped with the include_drafts test inverted
IsSkipped_inverted(context, cfg) ==
    Get(context, "draft", FALSE) /\ cfg.build.include_drafts

\* build's draft filter (line 447)
IsSkipped(context, cfg) ==
    Get(context, "draft", FALSE) /\ ~cfg.build.include_drafts

(***************************************************************************)
(* Sorting by date                                                         *)
(***************************************************************************)
\* Python's < on two date values of one type
KeyLess(a, b) ==
    IF a.type = "str" THEN StrLess(a.text, b.text) ELSE a.ts < b.ts

\* the exception sorted(posts, key=lambda d: d["date"]) raises, if any: the
\* key function fails on a post without a date, the comparison on two dates
\* of different types
SortError(posts) ==
    IF \E i \in DOMAIN posts : ~Has(posts[i], "date") THEN "KeyError"
    ELSE IF \E i, j \in DOMAIN posts : posts[i].date.type # posts[j].date.type
         THEN "TypeError"
         ELSE "none"

\* x goes in front of y
GoesBefore(x, y, reverse) ==
    IF reverse THEN KeyLess(y.date, x.date) ELSE KeyLess(x.date, y.date)

RECURSIVE InsertSorted(_, _, _)
InsertSorted(sorted, x, reverse) ==
    IF sorted = << >> THEN << x >>
    ELSE IF GoesBefore(x, Head(sorted), reverse) THEN << x >> \o sorted
    ELSE << Head(sorted) >> \o InsertSorted(Tail(sorted), x, reverse)

\* a stable sort: every post is placed behind the posts of equal date that
\* precede it in the input, for either direction
RECURSIVE StableSort(_, _)
StableSort(posts, reverse) ==
    IF posts = << >> THEN << >>
    ELSE InsertSorted(StableSort(SubSeq(posts, 1, Len(posts) - 1), reverse),
                      posts[Len(posts)], reverse)

Reverse(seq) == [ i \in DOMAIN seq |-> seq[Len(seq) + 1 - i] ]

\* sorted_by_date with reverse done by reversing an ascending sort, which
\* turns the posts of equal date around
sorted_then_reversed(posts, reverse) ==
    IF reverse THEN Reverse(StableSort(posts, FALSE)) ELSE StableSort(posts, FALSE)

\* sorted(posts, key=lambda d: d["date"], reverse=reverse)
sorted_by_date(posts, reverse) == StableSort(posts, reverse)

(***************************************************************************)
(* The builders                                                            *)
(***************************************************************************)
\* HomePosts with the slice one too long
HomePosts_one_more(sorted, posts_per_page) == Slice(sorted, posts_per_page + 1)

\* the posts of the home page
HomePosts(sorted, posts_per_page) == Slice(sorted, posts_per_page)

build_index(index, config) ==
    LET sorted == sorted_by_date(index, TRUE)
    IN  [ home |-> HomePosts(sorted, config.build.posts_per_page),
          blog |-> sorted ]

PostTags(post) == Get(post, "tags", << >>)

RECURSIVE SortedStrs(_)
SortedStrs(strs) ==
    IF strs = { } THEN << >>
    ELSE LET least == CHOOSE x \in strs : \A y \in strs \ { x } : StrLess(x, y)
         IN  << least >> \o SortedStrs(strs \ { least })

TagUrl(tag) == << "/", "b", "l", "o", "g", "/", "t", "a", "g", "s", "/" >> \o tag \o << "/" >>

\* the (tag, url) list of the tag-index page (lines 238-244)
TagList(index) ==
    LET raw == SortedStrs(UNION { Range(PostTags(index[i])) : i \in DOMAIN index })
        tags == [ i \in DOMAIN raw |-> normalize_tag(raw[i]) ]
    IN  [ i \in DOMAIN tags |-> << tags[i], TagUrl(tags[i]) >> ]

\* the (normalized tag, post) pairs in the order lines 248-251 visit them
RECURSIVE TagPairs(_)
TagPairs(index) ==
    IF index = << >> THEN << >>
    ELSE LET post == index[Len(index)]
             tags == PostTags(post)
         IN  TagPairs(SubSeq(index, 1, Len(index) - 1))
                 \o [ j \in DOMAIN tags |-> << normalize_tag(tags[j]), post >> ]

\* by_tags: normalized tag -> the posts appended under it (lines 247-251)
ByTags(index) ==
    LET pairs == TagPairs(index)
    IN  [ tag \in { pairs[i][1] : i \in DOMAIN pairs } |->
            LET IsTag(p) == p[1] = tag
                mine == SelectSeq(pairs, IsTag)
            IN  [ i \in DOMAIN mine |-> mine[i][2] ] ]

\* strftime("%Y"), ("%Y/%m"), ("%Y/%m/%d") of a datetime
ArchiveKeys(date) ==
    LET y == date.ts \div 10000
        m == (date.ts \div 100) % 100
        d == date.ts % 100
    IN  { << y >>, << y, m >>, << y, m, d >> }

\* the first exception build_date_archives raises, if any: a date that is
\* still a str has no strftime
ArchiveError(index) ==
    IF \E i \in DOMAIN index : index[i].date.type # "datetime"
    THEN "AttributeError" ELSE "none"

\* articles: archive path -> the posts appended under it (lines 204-214)
Articles(index) ==
    [ key \in UNION { ArchiveKeys(index[i].date) : i \in DOMAIN index } |->
        LET InBucket(post) == key \in ArchiveKeys(post.date)
        IN  SelectSeq(index, InBucket) ]

IsDraft(post) == Get(post, "draft", FALSE)

\* IsPublished without the draft test: every post is syndicated
IsPublished_no_filter(post) == TRUE

IsPublished(post) == ~IsDraft(post)

\* the posts build_feeds makes entries of (lines 290-293)
FeedItems(index) == sorted_by_date(SelectSeq(index, IsPublished), FALSE)

\* the first exception build_feeds raises, if any
FeedError(index) ==
    LET candidates == SelectSeq(index, IsPublished)
    IN  IF SortError(candidates) # "none" THEN SortError(candidates)
        ELSE IF \E i \in DOMAIN candidates :
                    ~Has(candidates[i], "url") \/ ~Has(candidates[i], "title")
             THEN "KeyError"
             ELSE "none"

FeedEntries(index, config) ==
    LET items == FeedItems(index)
    IN  [ i \in DOMAIN items |->
            [ id      |-> << config.site.url, items[i].url >>,
              title   |-> items[i].title,
              content |-> items[i].html_content,
              pubdate |-> items[i].date ] ]

\* the first exception build_sitemap raises, if any: each post's url is read
\* before its date is formatted
SitemapError(index) ==
    LET listed == SelectSeq(index, IsPublished)
        bad == { i \in DOMAIN listed :
                   ~Has(listed[i], "url") \/ listed[i].date.type # "datetime" }
    IN  IF bad = { } THEN "none"
        ELSE LET first == CHOOSE i \in bad : \A j \in bad : i <= j
             IN  IF ~Has(listed[first], "url") THEN "KeyError"
                 ELSE "AttributeError"

SitemapEntries(index, config) ==
    LET listed == SelectSeq(index, IsPublished)
    IN  [ i \in DOMAIN listed |->
            [ loc     |-> << config.site.url, listed[i].url >>,
              lastmod |-> listed[i].date.ts ] ]

(***************************************************************************)
(* State                                                                   *)
(***************************************************************************)
\* the build command
VARIABLES
    cfg,         \* the configuration load_config returned
    scanned,     \* the files the per-file loop has processed, in glob order
    index,       \* build's index list
    written,     \* the per-file output pages written so far
    pc,          \* the next step of build
    error,       \* the exception that ended the run, "none" if none
    home_page,   \* the posts of <output>/index.html
    blog_page,   \* the posts of <output>/blog/index.html
    tags_page,   \* the (tag, url) list of <output>/blog/tags/index.html
    tag_pages,   \* normalized tag -> posts of <output>/blog/tags/<tag>/
    archives,    \* archive path -> posts of <output>/blog/<path>/
    feed,        \* the feed files: whether they exist, and their entries
    sitemap,     \* the <url> entries of sitemap.xml
    rendered     \* the builders that have rendered their pages

build_vars ==
    << cfg, scanned, index, written, pc, error, home_page, blog_page,
       tags_page, tag_pages, archives, feed, sitemap, rendered >>

outputs == << home_page, blog_page, tags_page, tag_pages, archives, feed, sitemap >>

\* load_config
VARIABLES
    config_file,     \* the file load_config is given
    default_config,  \* the module-level DEFAULT_CONFIG object
    config,          \* what load_config returned
    cpc,             \* "call", "returned" or "raised"
    cerror           \* the exception load_config raised, "none" if none

config_vars == << config_file, default_config, config, cpc, cerror >>

\* normalize_tag applied to two tags
VARIABLES
    tag,         \* a tag as written in front matter
    other,       \* a tag that differs from it by case and accents only
    slug,        \* normalize_tag(tag)
    other_slug,  \* normalize_tag(other)
    again,       \* normalize_tag(slug)
    tpc          \* "input", "normalized" or "again"

tag_vars == << tag, other, slug, other_slug, again, tpc >>

vars == << build_vars, config_vars, tag_vars >>

\* a part of the program that is not running
BuildIdle ==
    /\ cfg = DEFAULT_CONFIG
    /\ scanned = << >>
    /\ index = << >>
    /\ written = { }
    /\ pc = "idle"
    /\ error = "none"
    /\ home_page = << >>
    /\ blog_page = << >>
    /\ tags_page = << >>
    /\ tag_pages = EmptyDict
    /\ archives = EmptyDict
    /\ feed = [ files |-> FALSE, entries |-> << >> ]
    /\ sitemap = << >>
    /\ rendered = { }

ConfigIdle ==
    /\ config_file = [ exists |-> FALSE ]
    /\ default_config = DEFAULT_CONFIG
    /\ config = EmptyDict
    /\ cpc = "idle"
    /\ cerror = "none"

TagIdle ==
    /\ tag = << >>
    /\ other = << >>
    /\ slug = << >>
    /\ other_slug = << >>
    /\ again = << >>
    /\ tpc = "idle"


(***************************************************************************)
(* The build command                                                       *)
(***************************************************************************)
\* the pages the loop body writes for one file (lines 451-457)
PagesOf(f, conf) ==
    LET file == GlobPath(conf.paths.content, f)
        context == get_template_context(f)
        template == get_template_name(file, conf.paths.content)
        paths == get_output_paths(conf.paths.output, context, file)
    IN  { [ path |-> paths[i], template |-> template,
            content |-> context.html_content ] : i \in DOMAIN paths }

BuildInit ==
    /\ cfg \in BuildConfigs
    /\ scanned = << >>
    /\ index = << >>
    /\ written = { }
    /\ pc = "scan"
    /\ error = "none"
    /\ home_page = << >>
    /\ blog_page = << >>
    /\ tags_page = << >>
    /\ tag_pages = EmptyDict
    /\ archives = EmptyDict
    /\ feed = [ files |-> FALSE, entries |-> << >> ]
    /\ sitemap = << >>
    /\ rendered = { }

\* one iteration of the per-file loop (lines 443-460), for the file glob
\* reports next
ScanFile(f) ==
    /\ pc = "scan"
    /\ Len(scanned) < MaxFiles
    /\ f \notin Range(scanned)
    /\ LET file == GlobPath(cfg.paths.content, f)
           context == get_template_context(f)
       IN  /\ scanned' = Append(scanned, f)
           /\ IF IsSkipped(context, cfg)
              THEN UNCHANGED << written, index >>
              ELSE /\ written' = written \cup PagesOf(f, cfg)
                   /\ index' = IF IsIndexed(file, cfg.paths.content)
                               THEN Append(index, context)
                               ELSE index
    /\ UNCHANGED << cfg, pc, error, rendered, outputs >>
    /\ UNCHANGED << config_vars, tag_vars >>

Abort(exception) ==
    /\ pc' = "aborted"
    /\ error' = exception

\* the loop is exhausted; build_index (lines 180-199)
BuildIndex ==
    /\ pc = "scan"
    /\ IF SortError(index) # "none"
       THEN /\ Abort(SortError(index))
            /\ UNCHANGED << home_page, blog_page, rendered >>
       ELSE /\ home_page' = build_index(index, cfg).home
            /\ blog_page' = build_index(index, cfg).blog
            /\ rendered' = rendered \cup { "index" }
            /\ pc' = "tags"
            /\ UNCHANGED error
    /\ UNCHANGED << cfg, scanned, index, written, tags_page, tag_pages,
                    archives, feed, sitemap >>
    /\ UNCHANGED << config_vars, tag_vars >>

\* build_tags (lines 234-259)
BuildTags ==
    /\ pc = "tags"
    /\ tags_page' = TagList(index)
    /\ tag_pages' = ByTags(index)
    /\ rendered' = rendered \cup { "tags" }
    /\ pc' = "archives"
    /\ UNCHANGED << cfg, scanned, index, written, error, home_page, blog_page,
                    archives, feed, sitemap >>
    /\ UNCHANGED << config_vars, tag_vars >>

\* build_date_archives (lines 202-222)
BuildDateArchives ==
    /\ pc = "archives"
    /\ IF ArchiveError(index) # "none"
       THEN /\ Abort(ArchiveError(index))
            /\ UNCHANGED << archives, rendered >>
       ELSE /\ archives' = Articles(index)
            /\ rendered' = rendered \cup { "archives" }
            /\ pc' = "feeds"
            /\ UNCHANGED error
    /\ UNCHANGED << cfg, scanned, index, written, home_page, blog_page,
                    tags_page, tag_pages, feed, sitemap >>
    /\ UNCHANGED << config_vars, tag_vars >>

\* build_feeds (lines 262-307): nothing when feeds are disabled; otherwise
\* the two files are touched before the entries are made
BuildFeeds ==
    /\ pc = "feeds"
    /\ IF ~cfg.feeds.enabled
       THEN /\ pc' = "sitemap"
            /\ UNCHANGED << feed, rendered, error >>
       ELSE IF FeedError(index) # "none"
       THEN /\ Abort(FeedError(index))
            /\ feed' = [ files |-> TRUE, entries |-> << >> ]
            /\ UNCHANGED rendered
       ELSE /\ feed' = [ files |-> TRUE, entries |-> FeedEntries(index, cfg) ]
            /\ rendered' = rendered \cup { "feeds" }
            /\ pc' = "sitemap"
            /\ UNCHANGED error
    /\ UNCHANGED << cfg, scanned, index, written, home_page, blog_page,
                    tags_page, tag_pages, archives, sitemap >>
    /\ UNCHANGED << config_vars, tag_vars >>

\* build_sitemap (lines 310-329)
BuildSitemap ==
    /\ pc = "sitemap"
    /\ IF SitemapError(index) # "none"
       THEN /\ Abort(SitemapError(index))
            /\ UNCHANGED << sitemap, rendered >>
       ELSE /\ sitemap' = SitemapEntries(index, cfg)
            /\ rendered' = rendered \cup { "sitemap" }
            /\ pc' = "rest"
            /\ UNCHANGED error
    /\ UNCHANGED << cfg, scanned, index, written, home_page, blog_page,
                    tags_page, tag_pages, archives, feed >>
    /\ UNCHANGED << config_vars, tag_vars >>

\* build_dev_page, build_static, copy_texts, copy_cname (lines 467-470):
\* none of them reads or changes the index or the pages above
BuildRest ==
    /\ pc = "rest"
    /\ pc' = "done"
    /\ UNCHANGED << cfg, scanned, index, written, error, rendered, outputs >>
    /\ UNCHANGED << config_vars, tag_vars >>

BuildNext ==
    \/ \E f \in ContentFiles : ScanFile(f)
    \/ BuildIndex
    \/ BuildTags
    \/ BuildDateArchives
    \/ BuildFeeds
    \/ BuildSitemap
    \/ BuildRest

(***************************************************************************)
(* load_config                                                             *)
(***************************************************************************)
\* a value of the parsed user file: a mapping (a Python dict) or anything
\* else; Absent marks a key the file does not have
Dict(items) == [ type |-> "dict", items |-> items ]
Scalar(value) == [ type |-> "scalar", value |-> value ]
Absent == [ type |-> "absent" ]

IsDict(value) == value.type = "dict"

\* what a user file may say under each top-level key
UserChoices ==
    [ site   |-> { Absent,
                   Dict([ title |-> "My Blog" ]),
                   Dict([ title |-> "My Blog", tagline |-> "hello" ]),
                   Scalar("site") },
      paths  |-> { Absent,
                   Dict([ content |-> << "s", "r", "c", "/", "c", "o", "n", "t", "e", "n", "t" >> ]),
                   Scalar("paths") },
      build  |-> { Absent,
                   Dict([ posts_per_page |-> 5 ]),
                   Dict([ include_drafts |-> TRUE ]),
                   Dict([ posts_per_page |-> 5, include_drafts |-> TRUE ]),
                   Scalar("build") },
      feeds  |-> { Absent,
                   Dict([ enabled |-> FALSE ]),
                   Dict([ enabled |-> FALSE, rss_path |-> "/rss/",
                          atom_path |-> "/atom/" ]) },
      social |-> { Absent, Dict([ mastodon |-> "me" ]) },
      theme  |-> { Absent, Scalar("dark") } ]

\* the objects ez_yaml.to_object may return for a user file that is a mapping
UserConfigs ==
    { [ key \in { k \in DOMAIN choice : choice[k] # Absent } |-> choice[key] ] :
        choice \in { [ site |-> s, paths |-> p, build |-> b, feeds |-> f,
                       social |-> x, theme |-> t ] :
                       s \in UserChoices.site, p \in UserChoices.paths,
                       b \in UserChoices.build, f \in UserChoices.feeds,
                       x \in UserChoices.social, t \in UserChoices.theme } }

\* config.yaml: missing, empty (to_object returns None), or a mapping
ConfigFiles ==
    { [ exists |-> FALSE ], [ exists |-> TRUE, empty |-> TRUE ] }
        \cup { [ exists |-> TRUE, empty |-> FALSE, object |-> u ] : u \in UserConfigs }

\* update_section with the section replaced by the user's mapping
replace_section(section, user_section) == user_section

\* config[key].update(user_config[key])
update_section(section, user_section) ==
    [ k \in DOMAIN section \cup DOMAIN user_section |->
        IF k \in DOMAIN user_section THEN user_section[k] ELSE section[k] ]

\* the exception the merge loop raises, if any: config[key] of a mapping
\* under a key the defaults do not have
MergeError(defaults, user_config) ==
    IF \E key \in DOMAIN user_config :
          IsDict(user_config[key]) /\ key \notin DOMAIN defaults
    THEN "KeyError" ELSE "none"

\* the merge loop of load_config (lines 65-71)
merge_config(defaults, user_config) ==
    [ key \in DOMAIN defaults \cup DOMAIN user_config |->
        IF key \notin DOMAIN user_config THEN defaults[key]
        ELSE IF IsDict(user_config[key])
             THEN update_section(defaults[key], user_config[key].items)
             ELSE user_config[key] ]

\* the keys whose section dict of the defaults update() writes into
SharedKeys(defaults, user_config) ==
    { key \in DOMAIN user_config \cap DOMAIN defaults : IsDict(user_config[key]) }

\* the module-level defaults after update() has run for the sections `keys`:
\* config is a shallow copy, so its section dicts are the defaults' own
UpdatedDefaults(defaults, user_config, keys) ==
    [ key \in DOMAIN defaults |->
        IF key \in keys
        THEN update_section(defaults[key], user_config[key].items)
        ELSE defaults[key] ]

ConfigInit ==
    /\ config_file \in ConfigFiles
    /\ default_config = DEFAULT_CONFIG
    /\ config = EmptyDict
    /\ cpc = "call"
    /\ cerror = "none"

\* load_config when the file does not exist (lines 72-74)
LoadDefaults ==
    /\ cpc = "call"
    /\ ~config_file.exists
    /\ config' = default_config
    /\ cpc' = "returned"
    /\ UNCHANGED << config_file, default_config, cerror >>
    /\ UNCHANGED << build_vars, tag_vars >>

\* load_config on an empty file: iterating None raises
LoadEmpty ==
    /\ cpc = "call"
    /\ config_file.exists /\ config_file.empty
    /\ cpc' = "raised"
    /\ cerror' = "TypeError"
    /\ UNCHANGED << config_file, default_config, config >>
    /\ UNCHANGED << build_vars, tag_vars >>

\* load_config on a mapping (lines 60-71)
LoadUser ==
    /\ cpc = "call"
    /\ config_file.exists /\ ~config_file.empty
    /\ LET user_config == config_file.object
       IN  IF MergeError(default_config, user_config) # "none"
           THEN /\ cpc' = "raised"
                /\ cerror' = MergeError(default_config, user_config)
                \* the sections merged before the failing key, which depends
                \* on the order of the keys in the file
                /\ \E before \in SUBSET SharedKeys(default_config, user_config) :
                      default_config' =
                          UpdatedDefaults(default_config, user_config, before)
                /\ UNCHANGED config
           ELSE /\ config' = merge_config(default_config, user_config)
                /\ default_config' =
                      UpdatedDefaults(default_config, user_config,
                                      SharedKeys(default_config, user_config))
                /\ cpc' = "returned"
                /\ UNCHANGED cerror
    /\ UNCHANGED config_file
    /\ UNCHANGED << build_vars, tag_vars >>

ConfigNext == LoadDefaults \/ LoadEmpty \/ LoadUser

(***************************************************************************)
(* normalize_tag applied to tags                                           *)
(***************************************************************************)
\* the characters tags are drawn from: a letter in its four spellings (lower
\* and upper case, plain and accented), the separators, a punctuation mark
\* and a non-ASCII letter that has no decomposition
TagAlphabet == { "a", "A", "aacute", "Aacute", "-", "_", " ", "!", "ostroke" }

\* the spellings of one letter that differ by case or accent only
Spellings(c) ==
    IF c \in { "a", "A", "aacute", "Aacute" }
    THEN { "a", "A", "aacute", "Aacute" }
    ELSE { c }

TagStrings == UNION { [ 1..n -> TagAlphabet ] : n \in 0..MaxTagLen }

TagInit ==
    /\ tag \in TagStrings
    /\ other = tag
    /\ slug = << >>
    /\ other_slug = << >>
    /\ again = << >>
    /\ tpc = "input"

\* the other tag spells one more letter differently
Respell(i, c) ==
    /\ tpc = "input"
    /\ i \in DOMAIN other
    /\ c \in Spellings(other[i]) \ { other[i] }
    /\ other' = [ other EXCEPT ![i] = c ]
    /\ UNCHANGED << tag, slug, other_slug, again, tpc >>
    /\ UNCHANGED << build_vars, config_vars >>

NormalizeTags ==
    /\ tpc = "input"
    /\ slug' = normalize_tag(tag)
    /\ other_slug' = normalize_tag(other)
    /\ tpc' = "normalized"
    /\ UNCHANGED << tag, other, again >>
    /\ UNCHANGED << build_vars, config_vars >>

NormalizeAgain ==
    /\ tpc = "normalized"
    /\ again' = normalize_tag(slug)
    /\ tpc' = "again"
    /\ UNCHANGED << tag, other, slug, other_slug >>
    /\ UNCHANGED << build_vars, config_vars >>

TagNext ==
    \/ \E i \in 1..MaxTagLen, c \in TagAlphabet : Respell(i, c)
    \/ NormalizeTags
    \/ NormalizeAgain

(***************************************************************************)
(* Specifications                                                          *)
(***************************************************************************)
\* the build command, from the configuration load_config returned
Init == BuildInit /\ ConfigIdle /\ TagIdle

Next == BuildNext

Spec == Init /\ [][Next]_vars

\* load_config on the user files
InitConfig == ConfigInit /\ BuildIdle /\ TagIdle

SpecConfig == InitConfig /\ [][ConfigNext]_vars

\* normalize_tag on the tags
InitTag == TagInit /\ BuildIdle /\ ConfigIdle

SpecTag == InitTag /\ [][TagNext]_vars

(***************************************************************************)
(* Properties of the build command                                         *)
(***************************************************************************)
\* the files the loop has processed whose front matter says draft: true
ScannedDrafts ==
    { scanned[i] : i \in { j \in DOMAIN scanned :
                             IsDraft(get_template_context(scanned[j])) } }

\* the post rendered from file f is one of posts
Lists(posts, f) == \E i \in DOMAIN posts : posts[i].html_content = f.name

InFeed(f) == \E i \in DOMAIN feed.entries : feed.entries[i].content = f.name

InSitemap(f) ==
    /\ Len(f.tokens) > 0
    /\ Has(f.tokens[1], "url")
    /\ \E i \in DOMAIN sitemap : sitemap[i].loc = << cfg.site.url, f.tokens[1].url >>

HasPage(f) == \E page \in written : page.content = f.name

\* C1: whatever include_drafts is, an item with draft: true is never an entry
\* of the feed nor a <url> of the sitemap; and with include_drafts = true it
\* has had its output page written.
C1_DraftsNeverSyndicated ==
    \A f \in ScannedDrafts :
        /\ ~InFeed(f)
        /\ ~InSitemap(f)
        /\ cfg.build.include_drafts => HasPage(f)

\* a finished build that included a draft in the index, wrote its page and
\* built a feed and a sitemap with entries
C1_Witness ==
    /\ pc = "done"
    /\ cfg.build.include_drafts
    /\ \E f \in ScannedDrafts : Lists(index, f) /\ HasPage(f)
    /\ feed.entries # << >>
    /\ sitemap # << >>

\* the output paths of the url, the aliases or the derived slug of file f
OwnPaths(f) ==
    Range(get_output_paths(cfg.paths.output, get_template_context(f),
                           GlobPath(cfg.paths.content, f)))

\* C2: with include_drafts = false an item with draft: true has no output
\* page (none rendered from it, none at its url, aliases or slug) and is in
\* none of the home index, the blog listing, the tag pages, the date
\* archives, the feed and the sitemap.
C2_DraftsDropped ==
    ~cfg.build.include_drafts =>
        \A f \in ScannedDrafts :
            /\ ~HasPage(f)
            /\ \A page \in written : page.path \notin OwnPaths(f)
            /\ ~Lists(index, f)
            /\ ~Lists(home_page, f)
            /\ ~Lists(blog_page, f)
            /\ \A t \in DOMAIN tag_pages : ~Lists(tag_pages[t], f)
            /\ \A k \in DOMAIN archives : ~Lists(archives[k], f)
            /\ ~InFeed(f)
            /\ ~InSitemap(f)

\* a finished default-drafts build that met a draft and still listed,
\* tagged, archived and syndicated other posts
C2_Witness ==
    /\ pc = "done"
    /\ ~cfg.build.include_drafts
    /\ ScannedDrafts # { }
    /\ blog_page # << >>
    /\ DOMAIN tag_pages # { }
    /\ DOMAIN archives # { }
    /\ feed.entries # << >>
    /\ sitemap # << >>

\* the posts of `posts` are those of `of`, each once
SamePosts(posts, of) ==
    /\ Len(posts) = Len(of)
    /\ Range(posts) = Range(of)

\* C3: the home index has at most posts_per_page posts and is the leading
\* prefix of the blog listing, which holds every post of the index, sorted
\* by date, latest first.
C3_HomeIsPrefix ==
    "index" \in rendered =>
        /\ Len(home_page) <= cfg.build.posts_per_page
        /\ Len(home_page) = Min(cfg.build.posts_per_page, Len(blog_page))
        /\ home_page = SubSeq(blog_page, 1, Len(home_page))
        /\ SamePosts(blog_page, index)
        /\ \A i, j \in DOMAIN blog_page :
              i < j => ~KeyLess(blog_page[i].date, blog_page[j].date)

\* a home page that is a proper, non-empty prefix of a listing with posts
\* of different dates
C3_Witness ==
    /\ "index" \in rendered
    /\ 0 < Len(home_page)
    /\ Len(home_page) < Len(blog_page)
    /\ \E i, j \in DOMAIN blog_page : KeyLess(blog_page[j].date, blog_page[i].date)

\* C4 as claimed: a post whose date failed coercion (it is still a str) does
\* not abort the build on its date, is in the listings, and is in no archive
\* bucket while the posts with a timestamp are archived.
C4_FailedDateIsTolerated ==
    \A i \in DOMAIN index :
        (Has(index[i], "date") /\ index[i].date.type = "str") =>
            /\ ~(pc = "aborted" /\ error \in { "TypeError", "AttributeError" })
            /\ "index" \in rendered => index[i] \in Range(blog_page)
            /\ "archives" \in rendered =>
                  /\ \A k \in DOMAIN archives : index[i] \notin Range(archives[k])
                  /\ \A j \in DOMAIN index :
                        index[j].date.type = "datetime" =>
                            \A k \in ArchiveKeys(index[j].date) :
                                k \in DOMAIN archives /\ index[j] \in Range(archives[k])

\* the first path segment of a file below the content root
FirstSegment(f) == IF "/" \in Range(f.name) THEN SplitFirst(f.name, "/") ELSE << >>

\* C5 as claimed: a file under <content>/blog/ is rendered with blog.html,
\* one under <content>/pages/ or any other first segment with page.html.
C5_TemplateByFirstSegment ==
    \A i \in DOMAIN scanned :
        \A page \in written :
            page.content = scanned[i].name =>
                page.template = IF FirstSegment(scanned[i]) = << "b", "l", "o", "g" >>
                                THEN "blog.html" ELSE "page.html"

\* C6 as claimed: the tag-index page lists every normalized tag once, in the
\* sorted order of the slugs, each with /blog/tags/<slug>/, and the slugs
\* listed are those of the per-tag pages.
C6_TagIndexSortedUnique ==
    "tags" \in rendered =>
        /\ \A i, j \in DOMAIN tags_page :
              i < j => StrLess(tags_page[i][1], tags_page[j][1])
        /\ \A i \in DOMAIN tags_page : tags_page[i][2] = TagUrl(tags_page[i][1])
        /\ { tags_page[i][1] : i \in DOMAIN tags_page } = DOMAIN tag_pages

PositionIn(posts, post) == CHOOSE i \in DOMAIN posts : posts[i] = post

\* the posts of equal date are in the order the index has them
TiesInIndexOrder(posts) ==
    \A i, j \in DOMAIN posts :
        (i < j /\ posts[i].date = posts[j].date) =>
            PositionIn(index, posts[i]) < PositionIn(index, posts[j])

\* C7: in the home index and in the blog listing two posts of the same date
\* are in their discovery order, the order they were appended to the index.
C7_TiesKeepDiscoveryOrder ==
    "index" \in rendered =>
        TiesInIndexOrder(home_page) /\ TiesInIndexOrder(blog_page)

\* a home page that begins with two posts of one date, behind a later post
\* in the index
C7_Witness ==
    /\ "index" \in rendered
    /\ Len(home_page) >= 2
    /\ \E i, j \in DOMAIN home_page : i < j /\ home_page[i].date = home_page[j].date
    /\ \E i, j \in DOMAIN blog_page : KeyLess(blog_page[j].date, blog_page[i].date)

\* file f lies in the blog subtree of the content root
UnderBlog(f) == StartsWith(f.name, << "b", "l", "o", "g", "/" >>)

Survives(f) == ~IsSkipped(get_template_context(f), cfg)

IsBlogSurvivor(f) == UnderBlog(f) /\ Survives(f)

\* C10 as claimed: the index is the surviving files of the blog subtree, in
\* discovery order, for every content root.
C10_IndexIsBlogSurvivors ==
    LET survivors == SelectSeq(scanned, IsBlogSurvivor)
    IN  index = [ i \in DOMAIN survivors |-> get_template_context(survivors[i]) ]

(***************************************************************************)
(* Properties of load_config                                               *)
(***************************************************************************)
\* a user file that keeps to the schema: every section of the defaults it
\* names is a mapping
IsValidUserConfig(user_config) ==
    \A key \in DOMAIN user_config \cap DOMAIN DEFAULT_CONFIG : IsDict(user_config[key])

UserSays(user_config, section, key) ==
    /\ section \in DOMAIN user_config
    /\ IsDict(user_config[section])
    /\ key \in DOMAIN user_config[section].items

\* C8: for a valid user file, load_config returns a configuration in which
\* every default key the file does not give has its default value and every
\* key the file gives has the file's value.
C8_MergeKeepsDefaults ==
    (cpc = "returned" /\ config_file.exists /\ IsValidUserConfig(config_file.object)) =>
        LET user_config == config_file.object
        IN  /\ \A section \in DOMAIN DEFAULT_CONFIG :
                  /\ section \in DOMAIN config
                  /\ \A key \in DOMAIN DEFAULT_CONFIG[section] :
                        /\ key \in DOMAIN config[section]
                        /\ ~UserSays(user_config, section, key) =>
                              config[section][key] = DEFAULT_CONFIG[section][key]
            /\ \A section \in DOMAIN user_config :
                  /\ section \in DOMAIN config
                  /\ IF IsDict(user_config[section])
                     THEN \A key \in DOMAIN user_config[section].items :
                              /\ key \in DOMAIN config[section]
                              /\ config[section][key] = user_config[section].items[key]
                     ELSE config[section] = user_config[section]

\* a returned merge of a valid file that gives one key of a section, leaves
\* another key of it to the defaults, and adds a top-level scalar
C8_Witness ==
    /\ cpc = "returned"
    /\ config_file.exists
    /\ IsValidUserConfig(config_file.object)
    /\ UserSays(config_file.object, "build", "posts_per_page")
    /\ ~UserSays(config_file.object, "build", "include_drafts")
    /\ "theme" \in DOMAIN config_file.object

(***************************************************************************)
(* Properties of normalize_tag                                             *)
(***************************************************************************)
\* C9: normalizing a normalized tag gives the same slug, and two tags that
\* differ by letter case or accents only have the same slug.
C9_NormalizeIdempotent ==
    /\ tpc = "again" => again = slug
    /\ tpc \in { "normalized", "again" } => other_slug = slug

\* a tag normalization changed, renormalized, beside a tag spelled with
\* another case and an accent
C9_Witness ==
    /\ tpc = "again"
    /\ slug # << >>
    /\ slug # tag
    /\ \E i \in DOMAIN tag : tag[i] = "A" /\ other[i] = "aacute"
    /\ \E i \in DOMAIN tag : tag[i] \in { "-", " " }

====
